---- MODULE Spec2Model ----
(***************************************************************************)
(* A model of same-same.py, a filter for git diff output.                  *)
(*                                                                         *)
(* A line of text is a sequence of characters; a character is a string.   *)
(* Printable characters stand for themselves, control characters have      *)
(* names.  A rendered line is a sequence of pieces: characters of the      *)
(* text, and style markers (C_REM_LINE, ...) standing for the colour       *)
(* sequences of the palette.                                               *)
(*                                                                         *)
(* The model covers runs of main() in which neither SAME_SAME_OFF nor      *)
(* SAME_SAME_DBG is set.                                                   *)
(***************************************************************************)
EXTENDS Integers, Sequences, FiniteSets, TLC

VARIABLES
  interactive, \* args.interactive
  input,       \* the lines read from stdin so far, as read (rich text)
  buffer,      \* main's buffer of DiffLine
  output,      \* the lines printed to stdout: [src, text]
  pc,          \* "read": in the loop over stdin; "done": exited; "aborted": uncaught exception
  blk          \* what the last call of handle_file_lines did

vars == <<interactive, input, buffer, output, pc, blk>>

(***************************************************************************)
(* Characters.                                                             *)
(***************************************************************************)
TAB == "\t"
FF  == "\f"
CR  == "\r"
ESC == "<ESC>"
NUL == "<NUL>"
SOH == "<SOH>"
BEL == "<BEL>"
BS  == "<BS>"
VT  == "<VT>"
NL  == "\n"

Digits == {"0", "1", "2", "3", "4", "5", "6", "7", "8", "9"}

Letters ==
  {"a", "b", "c", "d", "e", "f", "g", "h", "i", "j", "k", "l", "m", "n", "o",
   "p", "q", "r", "s", "t", "u", "v", "w", "x", "y", "z",
   "A", "B", "D", "H", "L", "N", "O", "P", "T", "W", "E"}

\* \w of a str pattern: letters, digits and the underscore.
WordChars == Letters \cup Digits \cup {"_"}

\* \s, and what str.strip() removes.
SpaceChars == {" ", TAB, VT, FF, CR}

\* The characters of strange_char_re that the model's alphabet holds.
StrangeChars == {NUL, SOH, BEL, BS, TAB, VT, FF, CR, ESC}

\* strange_char_names: the comprehension over strange_char_ords adds nothing,
\* the assert before it has consumed the iterator; the seven named escapes remain.
strange_char_names(c) ==
  CASE c = NUL -> "\\0"
    [] c = BEL -> "\\a"
    [] c = BS  -> "\\b"
    [] c = FF  -> "\\f"
    [] c = CR  -> "\\r"
    [] c = TAB -> "\\t"
    [] c = VT  -> "\\v"
    [] OTHER   -> c

(***************************************************************************)
(* Sequences.                                                              *)
(***************************************************************************)
Drop(s, k) == SubSeq(s, k + 1, Len(s))

\* s[m-1:n] of Python, for 1 <= m: the elements at positions m..n that exist.
Slice(s, m, n) == SubSeq(s, m, IF n < Len(s) THEN n ELSE Len(s))

StartsWith(s, p) == Slice(s, 1, Len(p)) = p

RECURSIVE Flatten(_)
Flatten(ss) == IF ss = <<>> THEN <<>> ELSE Head(ss) \o Flatten(Tail(ss))

\* The first position at or after i that holds no element of S.
RECURSIVE RunEnd(_, _, _)
RunEnd(s, i, S) == IF i <= Len(s) /\ s[i] \in S THEN RunEnd(s, i + 1, S) ELSE i

\* str.strip(), str.rstrip(chars)
RECURSIVE rstrip(_, _)
rstrip(s, S) ==
  IF s # <<>> /\ s[Len(s)] \in S THEN rstrip(SubSeq(s, 1, Len(s) - 1), S) ELSE s

strip(s) == LET r == rstrip(s, SpaceChars) IN Drop(r, RunEnd(r, 1, SpaceChars) - 1)

(***************************************************************************)
(* sgr_pat, graph_pat, diff_pat.  diff_pat is a verbose pattern: a blank   *)
(* in it counts only where it is escaped.                                  *)
(***************************************************************************)
\* sgr_pat.sub('', rich_text): remove every ESC [ [0-9;]* m.
RECURSIVE sgr_sub(_)
sgr_sub(s) ==
  IF s = <<>> THEN <<>>
  ELSE LET e == RunEnd(s, 3, Digits \cup {";"}) IN
       IF /\ s[1] = ESC
          /\ Len(s) >= 2 /\ s[2] = "["
          /\ e <= Len(s) /\ s[e] = "m"
       THEN sgr_sub(Drop(s, e))
       ELSE <<s[1]>> \o sgr_sub(Tail(s))

\* graph_pat.match(s).end()
graph_end(s) == RunEnd(s, 1, {" ", "/", "*", "|", "\\"}) - 1

P_commit == <<"c", "o", "m", "m", "i", "t", " ">>
P_author == <<"A", "u", "t", "h", "o", "r", ":">>
P_date   == <<"D", "a", "t", "e", ":">>
P_diff   == <<"d", "i", "f", "f", " ", "-", "-", "g", "i", "t">>
P_index  == <<"i", "n", "d", "e", "x">>
P_old    == <<"-", "-", "-", " ">>
P_new    == <<"+", "+", "+", " ">>
P_loc    == <<"@", "@", " ", "-">>

P_meta ==
  { <<"o", "l", "d", " ", "m", "o", "d", "e">>,
    <<"n", "e", "w", " ", "m", "o", "d", "e">>,
    <<"d", "e", "l", "e", "t", "e", "d", " ", "f", "i", "l", "e", " ", "m", "o", "d", "e">>,
    <<"n", "e", "w", " ", "f", "i", "l", "e", " ", "m", "o", "d", "e">>,
    <<"c", "o", "p", "y", " ", "f", "r", "o", "m">>,
    <<"c", "o", "p", "y", " ", "t", "o">>,
    <<"r", "e", "n", "a", "m", "e", " ", "f", "r", "o", "m">>,
    <<"r", "e", "n", "a", "m", "e", " ", "t", "o">>,
    <<"s", "i", "m", "i", "l", "a", "r", "i", "t", "y", " ", "i", "n", "d", "e", "x">>,
    <<"d", "i", "s", "s", "i", "m", "i", "l", "a", "r", "i", "t", "y", " ", "i", "n", "d", "e", "x">> }

\* The length of the commit hash in diff_pat.
HashLen == 40

HashChars == Digits \cup
  {"a", "b", "c", "d", "e", "f", "g", "h", "i", "j", "k", "l", "m", "n", "o",
   "p", "q", "r", "s", "t", "u", "v", "w", "x", "y", "z"}

\* The hunk header alternative of diff_pat:
\*   @@ -(\d+)(,\d+)? \+(\d+)(,\d+)? @@ ?(.*)
\* The positions of its pieces in s, and whether s matches.
OptLenEnd(s, i) ==
  LET e == RunEnd(s, i + 1, Digits) IN
  IF i <= Len(s) /\ s[i] = "," /\ e > i + 1 THEN e ELSE i

loc_match(s) ==
  LET o1 == Len(P_loc) + 1
      o2 == RunEnd(s, o1, Digits)
      o3 == OptLenEnd(s, o2)
      n1 == o3 + 2
      n2 == RunEnd(s, n1, Digits)
      n3 == OptLenEnd(s, n2)
      t1 == n3 + 3
      t2 == IF t1 <= Len(s) /\ s[t1] = " " THEN t1 + 1 ELSE t1
  IN  [ ok |-> /\ StartsWith(s, P_loc)
               /\ o2 > o1
               /\ Slice(s, o3, o3 + 1) = <<" ", "+">>
               /\ n2 > n1
               /\ Slice(s, n3, n3 + 2) = <<" ", "@", "@">>,
        old_num |-> SubSeq(s, o1, o2 - 1),
        new_num |-> SubSeq(s, n1, n2 - 1),
        parent_snippet |-> SubSeq(s, t2, Len(s)) ]

\* A match of diff_pat: lastgroup, string, and the named groups the program reads.
Match(kind, s, text, old_num, new_num, snippet, path) ==
  [ lastgroup |-> kind, string |-> s, text |-> text, old_num |-> old_num,
    new_num |-> new_num, parent_snippet |-> snippet, path |-> path ]

\* diff_pat.match(s): the alternatives in their order, the first that matches.
diff_pat_match(s) ==
  LET M(kind) == Match(kind, s, <<>>, <<>>, <<>>, <<>>, <<>>)
      loc == loc_match(s)
  IN
  IF s = <<>> THEN M("empty")
  ELSE IF /\ StartsWith(s, P_commit)
          /\ Len(s) >= Len(P_commit) + HashLen
          /\ \A i \in 1..HashLen : s[Len(P_commit) + i] \in HashChars
       THEN M("commit")
  ELSE IF StartsWith(s, P_author) THEN M("author")
  ELSE IF StartsWith(s, P_date) THEN M("date")
  ELSE IF StartsWith(s, P_diff) THEN M("diff")
  ELSE IF StartsWith(s, P_index) THEN M("idx")
  ELSE IF StartsWith(s, P_old) /\ Len(s) > Len(P_old)
       THEN Match("old", s, <<>>, <<>>, <<>>, <<>>, Drop(s, Len(P_old)))
  ELSE IF StartsWith(s, P_new) /\ Len(s) > Len(P_new)
       THEN Match("new", s, <<>>, <<>>, <<>>, <<>>, Drop(s, Len(P_new)))
  ELSE IF loc.ok
       THEN Match("loc", s, <<>>, loc.old_num, loc.new_num, loc.parent_snippet, <<>>)
  ELSE IF s[1] = " " THEN Match("ctx", s, Tail(s), <<>>, <<>>, <<>>, <<>>)
  ELSE IF s[1] = "-" THEN Match("rem", s, Tail(s), <<>>, <<>>, <<>>, <<>>)
  ELSE IF s[1] = "+" THEN Match("add", s, Tail(s), <<>>, <<>>, <<>>, <<>>)
  ELSE IF \E p \in P_meta : StartsWith(s, p) THEN M("meta")
  ELSE M("other")

\* int() of a run of decimal digits.
DigitValue(c) ==
  CASE c = "0" -> 0 [] c = "1" -> 1 [] c = "2" -> 2 [] c = "3" -> 3 [] c = "4" -> 4
    [] c = "5" -> 5 [] c = "6" -> 6 [] c = "7" -> 7 [] c = "8" -> 8 [] c = "9" -> 9

RECURSIVE int(_)
int(ds) ==
  IF ds = <<>> THEN 0 ELSE 10 * int(SubSeq(ds, 1, Len(ds) - 1)) + DigitValue(ds[Len(ds)])

(***************************************************************************)
(* The palette: each style is one marker piece.                            *)
(***************************************************************************)
RST           == "RST"
C_FILE        == "C_FILE"
C_MODE        == "C_MODE"
C_LOC         == "C_LOC"
C_SNIPPET     == "C_SNIPPET"
C_DROPPED     == "C_DROPPED"
C_REM_LINE    == "C_REM_LINE"
C_ADD_LINE    == "C_ADD_LINE"
C_REM_MOVED   == "C_REM_MOVED"
C_ADD_MOVED   == "C_ADD_MOVED"
C_REM_TOKEN   == "C_REM_TOKEN"
C_ADD_TOKEN   == "C_ADD_TOKEN"
C_RST_TOKEN   == "C_RST_TOKEN"
C_STRANGE     == "C_STRANGE"
C_RST_STRANGE == "C_RST_STRANGE"
C_END         == "C_END"

(***************************************************************************)
(* Tokens and the token diff.                                              *)
(***************************************************************************)
\* highlight_strange_chars(string): each run of strange characters is
\* translated and put between C_STRANGE and C_RST_STRANGE.
RECURSIVE highlight_strange_chars(_)
highlight_strange_chars(string) ==
  IF string = <<>> THEN <<>>
  ELSE IF string[1] \in StrangeChars
       THEN LET e == RunEnd(string, 1, StrangeChars) IN
            <<C_STRANGE>> \o [i \in 1..(e - 1) |-> strange_char_names(string[i])]
              \o <<C_RST_STRANGE>> \o highlight_strange_chars(Drop(string, e - 1))
       ELSE <<string[1]>> \o highlight_strange_chars(Tail(string))

\* token_pat.finditer(text): the tokens of a line, each a sequence of characters.
\* The alternative \d+ never matches first: \w holds the digits.
RECURSIVE token_pat_findall(_)
token_pat_findall(s) ==
  IF s = <<>> THEN <<>>
  ELSE LET c == s[1]
           e == CASE c \in WordChars  -> RunEnd(s, 1, WordChars)
                  [] c = " "          -> RunEnd(s, 1, {" "})
                  [] c = TAB          -> RunEnd(s, 1, {TAB})
                  [] c \in SpaceChars -> RunEnd(s, 1, SpaceChars)
                  [] OTHER            -> 2
       IN  <<SubSeq(s, 1, e - 1)>> \o token_pat_findall(Drop(s, e - 1))

\* tokenize_difflines(lines), on the lines' texts.
RECURSIVE tokenize_from(_, _)
tokenize_from(texts, i) ==
  IF i > Len(texts) THEN <<>>
  ELSE (IF i > 1 THEN << <<NL>> >> ELSE <<>>)
         \o token_pat_findall(texts[i]) \o tokenize_from(texts, i + 1)

tokenize_difflines(texts) == tokenize_from(texts, 1)

\* append_frags: frags is a list of lines, each the pieces appended so far;
\* positions and line_idx count from 0 as in the source.  The result is the
\* list as the call leaves it, and the line index it returns.
RECURSIVE append_frags_loop(_, _, _, _)
append_frags_loop(frags, slice, line_idx, highlight) ==
  IF slice = <<>> THEN [frags |-> frags, line_idx |-> line_idx]
  ELSE LET frag == Head(slice) IN
       IF frag = <<NL>>
       THEN append_frags_loop(frags, Tail(slice), line_idx + 1, highlight)
       ELSE append_frags_loop(
              [frags EXCEPT ![line_idx + 1] =
                 @ \o <<highlight>> \o highlight_strange_chars(frag)],
              Tail(slice), line_idx, highlight)

\* append_frags with a slice that starts one token late.
append_frags_skips(frags, tokens, line_idx, pos, end, highlight) ==
  append_frags_loop(frags, Slice(tokens, pos + 2, end), line_idx, highlight)

append_frags(frags, tokens, line_idx, pos, end, highlight) ==
  append_frags_loop(frags, Slice(tokens, pos + 1, end), line_idx, highlight)

\* The loop of add_token_diffs over the matching blocks <<r_p, a_p, l>>.
RECURSIVE token_diff_loop(_, _, _, _)
token_diff_loop(blocks, r_tokens, a_tokens, st) ==
  IF blocks = <<>> THEN st
  ELSE LET r_p == Head(blocks)[1]
           a_p == Head(blocks)[2]
           l   == Head(blocks)[3]
           r1  == append_frags(st.r_frags, r_tokens, st.r_line_idx, st.r_d, r_p, C_REM_TOKEN)
           a1  == append_frags(st.a_frags, a_tokens, st.a_line_idx, st.a_d, a_p, C_ADD_TOKEN)
           r_d == r_p + l
           a_d == a_p + l
           r2  == append_frags(r1.frags, r_tokens, r1.line_idx, r_p, r_d, C_RST_TOKEN)
           a2  == append_frags(a1.frags, a_tokens, a1.line_idx, a_p, a_d, C_RST_TOKEN)
       IN  token_diff_loop(Tail(blocks), r_tokens, a_tokens,
             [ r_frags |-> r2.frags, a_frags |-> a2.frags,
               r_line_idx |-> r2.line_idx, a_line_idx |-> a2.line_idx,
               r_d |-> r_d, a_d |-> a_d ])

\* add_token_diffs(rem_lines, add_lines), given the blocks get_matching_blocks
\* returned: the new text of each rem line and of each add line.
add_token_diffs(rem_texts, add_texts, blocks) ==
  LET r_tokens == tokenize_difflines(rem_texts)
      a_tokens == tokenize_difflines(add_texts)
      st == token_diff_loop(blocks, r_tokens, a_tokens,
              [ r_frags |-> [i \in 1..Len(rem_texts) |-> <<>>],
                a_frags |-> [i \in 1..Len(add_texts) |-> <<>>],
                r_line_idx |-> 0, a_line_idx |-> 0, r_d |-> 0, a_d |-> 0 ])
  IN  [rem |-> st.r_frags, add |-> st.a_frags]

\* SequenceMatcher(a, b).get_matching_blocks(), by its contract: triples
\* <<i, j, n>> with a[i:i+n] == b[j:j+n], increasing in i and in j, no two of
\* them adjacent, and last the sentinel <<len(a), len(b), 0>>.  Which of the
\* lists that meet the contract the library returns is left open: the
\* result is the set of all of them, from positions i, j on; after a block that
\* ends at i, j the next one does not start at both.
RECURSIVE matching_blocks_from(_, _, _, _, _)
matching_blocks_from(a, b, i, j, after) ==
  { << <<Len(a), Len(b), 0>> >> } \cup
  UNION { { <<t>> \o rest : rest \in matching_blocks_from(a, b, t[1] + t[3], t[2] + t[3], TRUE) } :
          t \in { u \in (i..(Len(a) - 1)) \X (j..(Len(b) - 1)) \X (1..Len(a)) :
                    /\ u[1] + u[3] <= Len(a)
                    /\ u[2] + u[3] <= Len(b)
                    /\ SubSeq(a, u[1] + 1, u[1] + u[3]) = SubSeq(b, u[2] + 1, u[2] + u[3])
                    /\ ~(after /\ u[1] = i /\ u[2] = j) } }

get_matching_blocks(a, b) == matching_blocks_from(a, b, 0, 0, FALSE)

(***************************************************************************)
(* DiffLine and handle_file_lines.                                         *)
(***************************************************************************)
\* DiffLine(kind, match, rich_text); idx is the line's place in the input.
DiffLine(idx, match, rich_text) ==
  [ idx |-> idx, kind |-> match.lastgroup, match |-> match, rich_text |-> rich_text,
    old_num |-> 0, new_num |-> 0, chunk_idx |-> 0, is_src |-> FALSE, text |-> <<>> ]

plain_text(line) == line.match.string

\* The values of old_uniques and new_uniques: None, or a line number.
None == <<>>
Some(n) == <<n>>

EmptyMap == [k \in {} |-> 0]

OLD_PATH == <<"<", "O", "L", "D", "_", "P", "A", "T", "H", ">">>
NEW_PATH == <<"<", "N", "E", "W", "_", "P", "A", "T", "H", ">">>

vscode_path(path) ==
  IF \E i \in 1..Len(path) : path[i] \in {"/", "<", ">"} THEN path ELSE <<".", "/">> \o path

\* insert_unique_line that keeps the last line of a body instead of None.
insert_unique_line_last_wins(d, line, idx) ==
  LET body == strip(line) IN
  IF body \in DOMAIN d THEN [d EXCEPT ![body] = Some(idx)] ELSE (body :> Some(idx)) @@ d

insert_unique_line(d, line, idx) ==
  LET body == strip(line) IN
  IF body \in DOMAIN d THEN [d EXCEPT ![body] = None] ELSE (body :> Some(idx)) @@ d

\* The locals of handle_file_lines before its first loop.
locals(lines) ==
  [ lines |-> lines,
    old_ctx_nums |-> {}, new_ctx_nums |-> {},
    old_lines |-> EmptyMap, new_lines |-> EmptyMap,  \* line number -> place in lines
    old_uniques |-> EmptyMap, new_uniques |-> EmptyMap,
    old_num |-> 0, new_num |-> 0, chunk_idx |-> 0,
    old_path |-> OLD_PATH, new_path |-> NEW_PATH,
    is_prev_add_rem |-> FALSE,
    hunks |-> <<>>,       \* what each hunk header did to the counters
    error |-> FALSE ]     \* an assert has failed

\* Lines 117-123: a ctx or rem line takes the old number.
take_old_num(v, i) ==
  IF v.old_num \in DOMAIN v.old_lines \/ v.old_num \in v.old_ctx_nums
  THEN [v EXCEPT !.error = TRUE]
  ELSE [v EXCEPT !.lines[i].old_num = v.old_num,
                 !.old_lines = (v.old_num :> i) @@ @,
                 !.old_ctx_nums = @ \cup {v.old_num},
                 !.old_num = @ + 1]

\* Lines 124-130: a ctx or add line takes the new number.
take_new_num(v, i) ==
  IF v.new_num \in DOMAIN v.new_lines \/ v.new_num \in v.new_ctx_nums
  THEN [v EXCEPT !.error = TRUE]
  ELSE [v EXCEPT !.lines[i].new_num = v.new_num,
                 !.new_lines = (v.new_num :> i) @@ @,
                 !.new_ctx_nums = @ \cup {v.new_num},
                 !.new_num = @ + 1]

\* loc_old with its assert lost.
loc_old_unchecked(v, o) == IF o > 0 THEN [v EXCEPT !.old_num = o] ELSE v

\* Lines 132-135: the old side of a hunk header that declares o.
loc_old(v, o) ==
  IF o > 0
  THEN IF o > v.old_num THEN [v EXCEPT !.old_num = o] ELSE [v EXCEPT !.error = TRUE]
  ELSE v

\* loc_new with >= for > in its assert.
loc_new_or_equal(v, n) ==
  IF n > 0
  THEN IF n >= v.new_num THEN [v EXCEPT !.new_num = n] ELSE [v EXCEPT !.error = TRUE]
  ELSE v

\* Lines 136-139: the new side of a hunk header that declares n.
loc_new(v, n) ==
  IF n > 0
  THEN IF n > v.new_num THEN [v EXCEPT !.new_num = n] ELSE [v EXCEPT !.error = TRUE]
  ELSE v

\* Lines 131-139, with the record of what the header did.
loc_line(v, match) ==
  LET o  == int(match.old_num)
      n  == int(match.new_num)
      v1 == loc_old(v, o)
      v2 == IF v1.error THEN v1 ELSE loc_new(v1, n)
  IN  [v2 EXCEPT !.hunks = Append(@,
         [ o |-> o, n |-> n, old_before |-> v.old_num, new_before |-> v.new_num,
           old_after |-> v2.old_num, new_after |-> v2.new_num,
           old_failed |-> v1.error, new_failed |-> ~v1.error /\ v2.error ])]

\* Lines 105-130: a source line.
src_line(v, i) ==
  LET kind == v.lines[i].kind
      text == v.lines[i].match.text
      v1 == [v EXCEPT !.lines[i].is_src = TRUE, !.lines[i].text = text]
      v2 == IF kind = "rem"
            THEN [v1 EXCEPT !.lines[i].chunk_idx = v.chunk_idx,
                            !.old_uniques = insert_unique_line(@, text, v.old_num)]
            ELSE IF kind = "add"
            THEN [v1 EXCEPT !.lines[i].chunk_idx = v.chunk_idx,
                            !.new_uniques = insert_unique_line(@, text, v.new_num)]
            ELSE v1
      v3 == IF kind \in {"ctx", "rem"} THEN take_old_num(v2, i) ELSE v2
  IN  IF v3.error \/ kind \notin {"ctx", "add"} THEN v3 ELSE take_new_num(v3, i)

\* The body of the first loop, for the line at place i.
accumulate_line(v, i) ==
  LET line == v.lines[i]
      kind == line.kind
      is_add_rem == kind \in {"rem", "add"}
      v1 == [v EXCEPT !.chunk_idx = IF ~v.is_prev_add_rem /\ is_add_rem THEN @ + 1 ELSE @,
                      !.is_prev_add_rem = is_add_rem]
  IN  IF kind \in {"ctx", "rem", "add"} THEN src_line(v1, i)
      ELSE IF kind = "loc" THEN loc_line(v1, line.match)
      ELSE IF kind = "old" THEN [v1 EXCEPT !.old_path = vscode_path(rstrip(line.match.path, {TAB}))]
      ELSE IF kind = "new" THEN [v1 EXCEPT !.new_path = vscode_path(rstrip(line.match.path, {TAB}))]
      ELSE v1

\* The first loop of handle_file_lines, from place i on; it ends at a failed assert.
RECURSIVE accumulate(_, _)
accumulate(v, i) ==
  IF i > Len(v.lines) \/ v.error THEN v ELSE accumulate(accumulate_line(v, i), i + 1)

\* diff_lines_match, a closure over the locals v.
diff_lines_match(v, old_idx, new_idx) ==
  IF old_idx \in v.old_ctx_nums \/ new_idx \in v.new_ctx_nums THEN FALSE
  ELSE IF old_idx \notin DOMAIN v.old_lines \/ new_idx \notin DOMAIN v.new_lines THEN FALSE
  ELSE strip(v.lines[v.old_lines[old_idx]].text) = strip(v.lines[v.new_lines[new_idx]].text)

\* The two while loops of the move detection: how far the run reaches.
RECURSIVE move_start(_, _, _)
move_start(v, p_o, p_n) ==
  IF diff_lines_match(v, p_o - 1, p_n - 1) THEN move_start(v, p_o - 1, p_n - 1) ELSE <<p_o, p_n>>

RECURSIVE move_end(_, _, _)
move_end(v, e_o, e_n) ==
  IF diff_lines_match(v, e_o, e_n) THEN move_end(v, e_o + 1, e_n + 1) ELSE <<e_o, e_n>>

\* Lines 150-167: old_moved_nums and new_moved_nums.
seeds(v) ==
  { body \in DOMAIN v.new_uniques :
      /\ v.new_uniques[body] # None
      /\ body \in DOMAIN v.old_uniques
      /\ v.old_uniques[body] # None }

moved_range(v, body) ==
  LET old_idx == v.old_uniques[body][1]
      new_idx == v.new_uniques[body][1]
      p == move_start(v, old_idx, new_idx)
      e == move_end(v, old_idx + 1, new_idx + 1)
  IN  [old |-> p[1]..(e[1] - 1), new |-> p[2]..(e[2] - 1)]

old_moved_nums(v) == UNION { moved_range(v, body).old : body \in seeds(v) }
new_moved_nums(v) == UNION { moved_range(v, body).new : body \in seeds(v) }

\* chunk_key without the moved sets.
chunk_key_unmoved(c, line) == <<line.is_src, line.chunk_idx, FALSE>>

\* chunk_key(line), a closure over the moved sets in c.
chunk_key(c, line) ==
  << line.is_src, line.chunk_idx,
     (line.old_num \in c.old_moved_nums \/ line.new_num \in c.new_moved_nums) >>

\* groupby(lines, key=chunk_key): the runs of consecutive lines with one key,
\* each run the places of its lines.
RECURSIVE groupby(_, _, _)
groupby(c, lines, i) ==
  IF i > Len(lines) THEN <<>>
  ELSE LET e == CHOOSE e \in i..Len(lines) :
                  /\ \A j \in i..e : chunk_key(c, lines[j]) = chunk_key(c, lines[i])
                  /\ e < Len(lines) => chunk_key(c, lines[e + 1]) # chunk_key(c, lines[i])
       IN  <<[j \in 1..(e - i + 1) |-> i + j - 1]>> \o groupby(c, lines, e + 1)

dropped_kinds == {"idx", "old", "new"}

pass_kinds == {"empty", "other"}

\* file_msg with the comparison of the paths lost.
file_msg_new_only(old_path, new_path) == new_path

\* Line 209: what the file header line shows.
file_msg(old_path, new_path) ==
  IF old_path = new_path THEN new_path
  ELSE old_path \o <<" ", "-", ">", " ">> \o new_path

\* Lines 213-215: the line of a dropped kind, printed if one is.
print_dropped(is_interactive, line) ==
  IF is_interactive THEN << <<C_DROPPED>> \o plain_text(line) \o <<RST>> >> ELSE <<>>

\* Lines 191-219: what the print loop does with one line.  printed is the
\* line written, if one is; raised tells the final else branch was taken.
print_line(c, line) ==
  LET kind == line.kind
      P(text) == [printed |-> <<[src |-> line.idx, text |-> text]>>, raised |-> FALSE]
  IN
  IF kind = "ctx" THEN P(line.text)
  ELSE IF kind = "rem"
       THEN P(<<C_REM_LINE>>
                \o (IF line.old_num \in c.old_moved_nums THEN <<C_REM_MOVED>> ELSE <<>>)
                \o line.text \o <<C_END>>)
  ELSE IF kind = "add"
       THEN P(<<C_ADD_LINE>>
                \o (IF line.new_num \in c.new_moved_nums THEN <<C_ADD_MOVED>> ELSE <<>>)
                \o line.text \o <<C_END>>)
  ELSE IF kind = "loc"
       THEN LET snippet == line.match.parent_snippet IN
            P(<<C_LOC>> \o c.new_path \o <<":">> \o line.match.new_num \o <<":">>
                \o (IF snippet # <<>> THEN <<" ", C_SNIPPET>> ELSE <<>>)
                \o snippet \o <<C_END>>)
  ELSE IF kind = "diff"
       THEN P(<<C_FILE>> \o file_msg(c.old_path, c.new_path) \o <<":", C_END>>)
  ELSE IF kind = "meta"
       THEN P(<<C_MODE>> \o c.new_path \o <<":", RST, " ">> \o line.rich_text)
  ELSE IF kind \in dropped_kinds
       THEN [ printed |-> [k \in DOMAIN print_dropped(c.interactive, line) |->
                            [src |-> line.idx, text |-> print_dropped(c.interactive, line)[k]]],
              raised |-> FALSE ]
  ELSE IF kind \in pass_kinds THEN P(line.rich_text)
  ELSE [printed |-> <<>>, raised |-> TRUE]

\* The print loop over a chunk, from its k-th line on; it ends at the raise.
RECURSIVE print_chunk(_, _, _, _)
print_chunk(c, r, chunk, k) ==
  IF k > Len(chunk) THEN r
  ELSE LET p == print_line(c, r.lines[chunk[k]]) IN
       IF p.raised THEN [r EXCEPT !.raised = TRUE]
       ELSE print_chunk(c, [r EXCEPT !.out = @ \o p.printed], chunk, k + 1)

\* lines_with without the filter.
lines_with_all(ps, lines, num) == ps

\* [l for l in chunk if l.<num>]: the places among ps, in order, whose line
\* has a nonzero number in the field num.
RECURSIVE lines_with(_, _, _)
lines_with(ps, lines, num) ==
  IF ps = <<>> THEN <<>>
  ELSE (IF lines[Head(ps)][num] # 0 THEN <<Head(ps)>> ELSE <<>>)
         \o lines_with(Tail(ps), lines, num)

\* Lines 183-185: the chunk is diffed by tokens; all that the call can leave.
token_diffed(r, chunk) ==
  LET rem_lines == lines_with(chunk, r.lines, "old_num")
      add_lines == lines_with(chunk, r.lines, "new_num")
      rem_texts == [k \in 1..Len(rem_lines) |-> r.lines[rem_lines[k]].text]
      add_texts == [k \in 1..Len(add_lines) |-> r.lines[add_lines[k]].text]
      Rewritten(texts) ==
        [j \in 1..Len(r.lines) |->
           IF \E k \in 1..Len(rem_lines) : rem_lines[k] = j
           THEN [r.lines[j] EXCEPT !.text =
                   texts.rem[CHOOSE k \in 1..Len(rem_lines) : rem_lines[k] = j]]
           ELSE IF \E k \in 1..Len(add_lines) : add_lines[k] = j
           THEN [r.lines[j] EXCEPT !.text =
                   texts.add[CHOOSE k \in 1..Len(add_lines) : add_lines[k] = j]]
           ELSE r.lines[j]]
  IN  { [r EXCEPT !.lines = Rewritten(add_token_diffs(rem_texts, add_texts, blocks)),
                  !.calls = Append(@, [chunk |-> chunk, rem |-> rem_lines,
                                       add |-> add_lines, blocks |-> blocks])] :
          blocks \in get_matching_blocks(tokenize_difflines(rem_texts),
                                         tokenize_difflines(add_texts)) }

\* Lines 186-188: the chunk is context, or moved.
strange_highlighted(r, chunk) ==
  [r EXCEPT !.lines =
     [j \in 1..Len(r.lines) |->
        IF \E k \in 1..Len(chunk) : chunk[k] = j
        THEN [r.lines[j] EXCEPT !.text = highlight_strange_chars(@)]
        ELSE r.lines[j]]]

\* The body of the loop over the chunks: all that one pass can leave.
handle_chunk(c, r, chunk) ==
  LET key == chunk_key(c, r.lines[chunk[1]])
      is_src == key[1]
      chunk_idx == key[2]
      is_moved == key[3]
      rs == IF chunk_idx # 0 /\ ~is_moved THEN token_diffed(r, chunk)
            ELSE IF is_src THEN {strange_highlighted(r, chunk)}
            ELSE {r}
  IN  { print_chunk(c, r1, chunk, 1) : r1 \in rs }

\* The loop over the chunks: all that it can leave.
RECURSIVE handle_chunks(_, _, _)
handle_chunks(c, rs, chunks) ==
  IF chunks = <<>> THEN rs
  ELSE LET raised == { r \in rs : r.raised }
           next == UNION { handle_chunk(c, r, Head(chunks)) : r \in rs \ raised }
       IN  raised \cup handle_chunks(c, next, Tail(chunks))

\* What a call of handle_file_lines did.
Handled(status, lines, out, c, calls, hunks) ==
  [ status |-> status,   \* "skip", "ok", "AssertionError" or "Exception"
    lines |-> lines, out |-> out,
    old_moved_nums |-> c.old_moved_nums, new_moved_nums |-> c.new_moved_nums,
    old_path |-> c.old_path, new_path |-> c.new_path,
    calls |-> calls,     \* the calls of add_token_diffs
    hunks |-> hunks ]

NoClosure ==
  [ old_moved_nums |-> {}, new_moved_nums |-> {}, old_path |-> OLD_PATH,
    new_path |-> NEW_PATH, interactive |-> FALSE ]

\* handle_file_lines(lines, interactive): all that the call can do.
handle_file_lines(lines, is_interactive) ==
  LET first == lines[1]
      skip == first.kind \notin {"diff", "loc"} \/ graph_end(plain_text(first)) # 0
      v == accumulate(locals(lines), 1)
      c == [ old_moved_nums |-> old_moved_nums(v), new_moved_nums |-> new_moved_nums(v),
             old_path |-> v.old_path, new_path |-> v.new_path,
             interactive |-> is_interactive ]
      r0 == [lines |-> v.lines, out |-> <<>>, calls |-> <<>>, raised |-> FALSE]
  IN
  IF skip
  THEN { Handled("skip", lines,
                 [i \in 1..Len(lines) |-> [src |-> lines[i].idx, text |-> lines[i].rich_text]],
                 NoClosure, <<>>, <<>>) }
  ELSE IF v.error
  THEN { Handled("AssertionError", v.lines, <<>>, NoClosure, <<>>, v.hunks) }
  ELSE { Handled(IF r.raised THEN "Exception" ELSE "ok", r.lines, r.out, c, r.calls, v.hunks) :
           r \in handle_chunks(c, {r0}, groupby(c, v.lines, 1)) }

(***************************************************************************)
(* main.                                                                   *)
(***************************************************************************)
NoBlock == Handled("none", <<>>, <<>>, NoClosure, <<>>, <<>>)

Aborts(h) == h.status \in {"AssertionError", "Exception"}

\* flush_buffer(), then what main goes on with: the buffer rest and the
\* position next, unless the call raised.
Flushed(rest, next) ==
  IF buffer = <<>>
  THEN /\ buffer' = rest
       /\ pc' = next
       /\ UNCHANGED <<output, blk>>
  ELSE \E h \in handle_file_lines(buffer, interactive) :
         /\ blk' = h
         /\ output' = output \o h.out
         /\ IF Aborts(h)
            THEN pc' = "aborted" /\ buffer' = buffer
            ELSE pc' = next /\ buffer' = rest

\* One pass of the loop over stdin, for the line rich_text.
ReadLine(rich_text) ==
  LET match == diff_pat_match(sgr_sub(rich_text))
      line == DiffLine(Len(input) + 1, match, rich_text)
  IN  /\ pc = "read"
      /\ input' = Append(input, rich_text)
      /\ UNCHANGED interactive
      /\ IF match.lastgroup = "diff"
         THEN Flushed(<<line>>, "read")
         ELSE /\ buffer' = Append(buffer, line)
              /\ UNCHANGED <<output, pc, blk>>

\* The end of stdin: the last flush.
EndOfInput ==
  /\ pc = "read"
  /\ Flushed(<<>>, "done")
  /\ UNCHANGED <<interactive, input>>

InitMain ==
  /\ interactive \in BOOLEAN
  /\ input = <<>>
  /\ buffer = <<>>
  /\ output = <<>>
  /\ pc = "read"
  /\ blk = NoBlock

(***************************************************************************)
(* Inputs and specifications.  Every specification is main() on lines      *)
(* drawn from a set of its own, up to a number of lines of its own.        *)
(***************************************************************************)
DigitChar(n) ==
  CASE n = 0 -> "0" [] n = 1 -> "1" [] n = 2 -> "2" [] n = 3 -> "3" [] n = 4 -> "4"
    [] n = 5 -> "5" [] n = 6 -> "6" [] n = 7 -> "7" [] n = 8 -> "8" [] n = 9 -> "9"

\* The hunk header @@ -o +n @@, for o, n < 10.
LocLine(o, n) ==
  P_loc \o <<DigitChar(o), " ", "+", DigitChar(n), " ", "@", "@">>

CommitLine == P_commit \o [i \in 1..HashLen |-> "0"]

OldMarker_a_x == P_old \o <<"a", "/", "x", ".", "t", "x", "t">>
NewMarker_b_y == P_new \o <<"b", "/", "y", ".", "t", "x", "t">>
NewMarker_b_x == P_new \o <<"b", "/", "x", ".", "t", "x", "t">>
OldMarker_x   == P_old \o <<"x", ".", "t", "x", "t", TAB>>
NewMarker_x   == P_new \o <<"x", ".", "t", "x", "t">>

InitInteractive == InitMain /\ interactive

\* Lines of every kind.
MaxLines == 4

MainLines ==
  { P_diff,
    LocLine(1, 1),
    <<"-", "a">>,
    <<"+", "a", " ", "b">>,
    CommitLine,
    P_author,
    P_date,
    P_index,
    OldMarker_a_x,
    <<ESC, "[", "m">>,
    <<"n", "e", "w", " ", "m", "o", "d", "e">>,
    <<"x">> }

Next ==
  \/ \E l \in MainLines : Len(input) < MaxLines /\ ReadLine(l)
  \/ EndOfInput

Spec == InitMain /\ [][Next]_vars

\* Hunk headers and source lines.
MaxNumLines == 4

NumLines ==
  { LocLine(0, 1), LocLine(1, 0), LocLine(1, 1), LocLine(2, 1), LocLine(3, 3),
    <<" ", "c">>, <<"-", "a">>, <<"+", "b">> }

NextNum ==
  \/ \E l \in NumLines : Len(input) < MaxNumLines /\ ReadLine(l)
  \/ EndOfInput

SpecNum == InitInteractive /\ [][NextNum]_vars

\* One file block: a file header or a hunk header, then hunk headers and
\* context, removed and added lines with few bodies.
MaxMoveLines == 6

MoveLines ==
  { P_diff,
    LocLine(1, 1),
    <<" ", "}">>,
    <<"-", "x">>, <<"-", "}">>,
    <<"+", " ", "x">>, <<"+", "}">> }

NextMove ==
  \/ \E l \in MoveLines :
       /\ Len(input) < MaxMoveLines
       /\ IF input = <<>> THEN l \in {P_diff, LocLine(1, 1)} ELSE l # P_diff
       /\ ReadLine(l)
  \/ EndOfInput

SpecMove == InitInteractive /\ [][NextMove]_vars

\* Removed and added lines of several tokens.
MaxTokLines == 4

TokLines ==
  { LocLine(1, 1),
    <<"-", "a", " ", "b">>, <<"-", "b">>,
    <<"+", "a", TAB, "b">>, <<"+", "b">>, <<"+">> }

NextTok ==
  \/ \E l \in TokLines : Len(input) < MaxTokLines /\ ReadLine(l)
  \/ EndOfInput

SpecTok == InitInteractive /\ [][NextTok]_vars

\* File headers and path markers.
MaxPathLines == 4

PathLines ==
  { P_diff, OldMarker_a_x, NewMarker_b_y, NewMarker_b_x, OldMarker_x, NewMarker_x }

NextPath ==
  \/ \E l \in PathLines : Len(input) < MaxPathLines /\ ReadLine(l)
  \/ EndOfInput

SpecPath == InitMain /\ [][NextPath]_vars

(***************************************************************************)
(* Properties.  blk is the last block handled: its lines as the call     *)
(* left them, what it printed, its moved sets, its calls of                *)
(* add_token_diffs.                                                        *)
(***************************************************************************)
Kind(rich_text) == diff_pat_match(sgr_sub(rich_text)).lastgroup

Places == 1..Len(blk.lines)

\* The first loop of the call ran to its end; the whole call did.
Numbered == blk.status \in {"ok", "Exception"}
Completed == blk.status = "ok"

IsRem(i) == blk.lines[i].kind = "rem"
IsAdd(i) == blk.lines[i].kind = "add"
IsSrc(i) == blk.lines[i].kind \in {"ctx", "rem", "add"}

RemPlaces == { i \in Places : IsRem(i) }
AddPlaces == { i \in Places : IsAdd(i) }
SrcPlaces == { i \in Places : IsSrc(i) }

\* The trimmed text of the source line at place i.
Body(i) == strip(blk.lines[i].match.text)

\* The line at place i was printed with the text t.
RenderedAs(i, t) ==
  \E k \in 1..Len(blk.out) : blk.out[k] = [src |-> blk.lines[i].idx, text |-> t]

\* A well-formed diff: in every block that starts with a file header or a
\* hunk header, every hunk header declares, on each side, 0 or a number
\* above the lines counted so far.  live tells that the block of line i is
\* such a block, o and n count its lines.
RECURSIVE WellFormedFrom(_, _, _, _, _)
WellFormedFrom(ls, i, live, o, n) ==
  IF i > Len(ls) THEN TRUE
  ELSE LET m == diff_pat_match(sgr_sub(ls[i]))
           k == m.lastgroup
           d_o == int(m.old_num)
           d_n == int(m.new_num)
       IN
       IF k = "diff" THEN WellFormedFrom(ls, i + 1, TRUE, 0, 0)
       ELSE IF ~(live \/ (i = 1 /\ k = "loc")) THEN WellFormedFrom(ls, i + 1, FALSE, 0, 0)
       ELSE IF k = "loc"
            THEN /\ d_o = 0 \/ d_o > o
                 /\ d_n = 0 \/ d_n > n
                 /\ WellFormedFrom(ls, i + 1, TRUE,
                                   IF d_o = 0 THEN o ELSE d_o, IF d_n = 0 THEN n ELSE d_n)
       ELSE WellFormedFrom(ls, i + 1, TRUE,
                           IF k \in {"ctx", "rem"} THEN o + 1 ELSE o,
                           IF k \in {"ctx", "add"} THEN n + 1 ELSE n)

WellFormed(ls) == WellFormedFrom(ls, 1, FALSE, 0, 0)

\* No commit, author or date line is in a block of the input that starts
\* with a file header or a hunk header.
NoLogHeaderInBlock(ls) ==
  \A i, j \in 1..Len(ls) :
    (i < j /\ (Kind(ls[i]) = "diff" \/ (i = 1 /\ Kind(ls[i]) = "loc")))
      => Kind(ls[j]) \notin {"commit", "author", "date"}

LinePerLine ==
  /\ pc # "aborted"
  /\ \A k \in 1..Len(output) : output[k].src = k
  /\ pc = "read" => Len(output) + Len(buffer) = Len(input)
  /\ pc = "done" => Len(output) = Len(input)

\* C1: with -interactive, on a well-formed diff the run does not abort, the
\* k-th line printed is the rendering of the k-th line read, and at the end
\* as many lines are printed as were read, whatever the blocks.
C1_LinePerLine == (interactive /\ WellFormed(input)) => LinePerLine

\* What is left of C1 when the commit, author and date lines that C10 is
\* about are kept out of the file blocks.
LinePerLineWithoutLogHeaders ==
  (interactive /\ WellFormed(input) /\ NoLogHeaderInBlock(input)) => LinePerLine

\* C2: in a block that has been numbered, the old numbers of the context
\* and removed lines increase strictly in the order of the lines, and so do
\* the new numbers of the context and added lines.
C2_NumbersIncrease ==
  Numbered =>
    \A i, j \in Places :
      i < j =>
        /\ ({blk.lines[i].kind, blk.lines[j].kind} \subseteq {"ctx", "rem"}
              => blk.lines[i].old_num < blk.lines[j].old_num)
        /\ ({blk.lines[i].kind, blk.lines[j].kind} \subseteq {"ctx", "add"}
              => blk.lines[i].new_num < blk.lines[j].new_num)

\* C2's case: a numbered block of two hunks, the second of which moved
\* both counters on, with numbered lines in both.
C2_Witness ==
  /\ Completed
  /\ Len(blk.hunks) >= 2
  /\ blk.hunks[2].old_after > blk.hunks[2].old_before
  /\ blk.hunks[2].new_after > blk.hunks[2].new_before
  /\ \E i, j \in Places :
       /\ i < j
       /\ blk.lines[i].kind = "ctx" /\ blk.lines[j].kind = "ctx"
       /\ blk.lines[j].old_num > blk.lines[i].old_num + 1

\* The run was aborted by the hunk header h of the last block.
AbortedAt(h) ==
  /\ blk.status = "AssertionError" /\ pc = "aborted"
  /\ h = blk.hunks[Len(blk.hunks)]
  /\ blk.out = <<>>

\* C3 as the spec states it: on each side a hunk header sets the counter
\* to a declared value above it, and fails on any declared value that is
\* not above it, 0 included.
C3_Original ==
  \A k \in 1..Len(blk.hunks) :
    LET h == blk.hunks[k] IN
    /\ IF h.o > h.old_before
       THEN ~h.old_failed /\ h.old_after = h.o
       ELSE h.old_failed /\ AbortedAt(h)
    /\ ~h.old_failed =>
         IF h.n > h.new_before
         THEN ~h.new_failed /\ h.new_after = h.n
         ELSE h.new_failed /\ AbortedAt(h)

\* C3, amended: on each side a hunk header that declares 0 leaves the
\* counter as it is and fails nothing; one that declares a positive value
\* above the counter sets the counter to it; one that declares a positive
\* value not above the counter fails, and the run aborts with nothing of
\* the block printed.  The new side is examined only if the old side did
\* not fail.
C3_HunkHeader ==
  \A k \in 1..Len(blk.hunks) :
    LET h == blk.hunks[k] IN
    /\ h.o = 0 => ~h.old_failed /\ h.old_after = h.old_before
    /\ h.o > h.old_before => ~h.old_failed /\ h.old_after = h.o
    /\ (0 < h.o /\ h.o <= h.old_before) => h.old_failed /\ AbortedAt(h)
    /\ h.old_failed => ~h.new_failed /\ h.new_after = h.new_before
    /\ ~h.old_failed =>
         /\ h.n = 0 => ~h.new_failed /\ h.new_after = h.new_before
         /\ h.n > h.new_before => ~h.new_failed /\ h.new_after = h.n
         /\ (0 < h.n /\ h.n <= h.new_before) => h.new_failed /\ AbortedAt(h)
    /\ (h.old_failed \/ h.new_failed) => AbortedAt(h)

\* C3's case: a block in which one hunk header declared 0 on the old side
\* and was accepted, and a later one failed on the new side.
C3_Witness ==
  \E k1, k2 \in 1..Len(blk.hunks) :
    /\ k1 < k2
    /\ blk.hunks[k1].o = 0 /\ ~blk.hunks[k1].old_failed /\ ~blk.hunks[k1].new_failed
    /\ blk.hunks[k2].o > blk.hunks[k2].old_before
    /\ blk.hunks[k2].new_failed

\* The last line of the kind in the block that is the marker line, if any.
LastOfKind(kind) ==
  LET S == { i \in Places : blk.lines[i].kind = kind } IN
  IF S = {} THEN 0 ELSE CHOOSE i \in S : \A j \in S : j <= i

Markers(old_marker, new_marker) ==
  /\ LastOfKind("old") # 0 /\ plain_text(blk.lines[LastOfKind("old")]) = old_marker
  /\ LastOfKind("new") # 0 /\ plain_text(blk.lines[LastOfKind("new")]) = new_marker

FileLine(msg) == <<C_FILE>> \o msg \o <<":", C_END>>

Arrow == <<" ", "-", ">", " ">>
X_txt == <<"x", ".", "t", "x", "t">>
Y_txt == <<"y", ".", "t", "x", "t">>
A_x_txt == <<"a", "/">> \o X_txt
B_x_txt == <<"b", "/">> \o X_txt
B_y_txt == <<"b", "/">> \o Y_txt

\* A block that was rendered and starts with its file header.
FileBlock == Completed /\ blk.lines[1].kind = "diff"

\* C7 as the spec states it: with --- a/x.txt and +++ b/y.txt the file
\* line reads x.txt -> y.txt, and with --- a/x.txt and +++ b/x.txt it
\* shows one path, with no arrow.
C7_Original ==
  FileBlock =>
    /\ Markers(OldMarker_a_x, NewMarker_b_y) => RenderedAs(1, FileLine(X_txt \o Arrow \o Y_txt))
    /\ Markers(OldMarker_a_x, NewMarker_b_x) =>
         \E path \in {X_txt, A_x_txt, B_x_txt, <<".", "/">> \o X_txt} : RenderedAs(1, FileLine(path))

\* C7, amended: the file line shows the paths as the --- and +++ lines
\* give them (less trailing tabs, and with ./ before a name without a
\* slash), a/ and b/ included: old -> new when the two differ, the one path
\* when they are equal.  --- a/x.txt and +++ b/y.txt render as
\* a/x.txt -> b/y.txt, --- a/x.txt and +++ b/x.txt as a/x.txt -> b/x.txt,
\* and --- x.txt and +++ x.txt as ./x.txt.
C7_FileLine ==
  FileBlock =>
    /\ RenderedAs(1, FileLine(IF blk.old_path = blk.new_path THEN blk.new_path
                              ELSE blk.old_path \o Arrow \o blk.new_path))
    /\ Markers(OldMarker_a_x, NewMarker_b_y) => RenderedAs(1, FileLine(A_x_txt \o Arrow \o B_y_txt))
    /\ Markers(OldMarker_a_x, NewMarker_b_x) => RenderedAs(1, FileLine(A_x_txt \o Arrow \o B_x_txt))
    /\ Markers(OldMarker_x, NewMarker_x) => RenderedAs(1, FileLine(<<".", "/">> \o X_txt))

\* C7's case: a rendered block with --- a/x.txt and +++ b/y.txt.
C7_Witness == FileBlock /\ Markers(OldMarker_a_x, NewMarker_b_y)

\* C10: the rendering of a block never fails on the kind of a line, and
\* the empty, commit, author, date and other lines of a rendered block are
\* printed as their raw text.
C10_EveryKindRendered ==
  /\ blk.status # "Exception"
  /\ Completed =>
       \A i \in Places :
         blk.lines[i].kind \in {"empty", "commit", "author", "date", "other"}
           => RenderedAs(i, blk.lines[i].rich_text)

\* The body of the source line at place i is on no other source line of the
\* block than those at the places in S.
OnlyAt(i, S) == \A k \in SrcPlaces \ S : Body(k) # Body(i)

\* The places of the lines that some call of add_token_diffs was given.
DiffedPlaces ==
  UNION { { blk.calls[k].chunk[m] : m \in 1..Len(blk.calls[k].chunk) }
            \cup { blk.calls[k].rem[m] : m \in 1..Len(blk.calls[k].rem) }
            \cup { blk.calls[k].add[m] : m \in 1..Len(blk.calls[k].add) } :
          k \in 1..Len(blk.calls) }

\* The removed line at place i and the added line at place j are the only
\* two source lines of the block with their body.
UniquePair(i, j) ==
  /\ IsRem(i) /\ IsAdd(j)
  /\ Body(i) = Body(j)
  /\ OnlyAt(i, {i, j})

\* C4: in a rendered block, a removed line and an added line that are the
\* only two source lines with their trimmed text have their numbers in the
\* moved sets, are printed in the moved style with no token highlight, and
\* are given to no call of add_token_diffs.
C4_UniquePairMoved ==
  Completed =>
    \A i \in RemPlaces : \A j \in AddPlaces :
      UniquePair(i, j) =>
        /\ blk.lines[i].old_num \in blk.old_moved_nums
        /\ blk.lines[j].new_num \in blk.new_moved_nums
        /\ RenderedAs(i, <<C_REM_LINE, C_REM_MOVED>>
                           \o highlight_strange_chars(blk.lines[i].match.text) \o <<C_END>>)
        /\ RenderedAs(j, <<C_ADD_LINE, C_ADD_MOVED>>
                           \o highlight_strange_chars(blk.lines[j].match.text) \o <<C_END>>)
        /\ i \notin DiffedPlaces /\ j \notin DiffedPlaces

\* C4's case: a rendered block with such a pair, at positive numbers, next
\* to a line that was diffed by tokens.
C4_Witness ==
  /\ Completed
  /\ \E i \in RemPlaces : \E j \in AddPlaces :
       /\ UniquePair(i, j)
       /\ blk.lines[i].old_num > 0 /\ blk.lines[j].new_num > 0
       /\ blk.lines[i].match.text # blk.lines[j].match.text
  /\ DiffedPlaces # {}

\* C5: in a numbered block, the number of a removed line whose trimmed text
\* is on a second removed line is not in the old moved set, and the number
\* of an added line whose trimmed text is on a second added line is not in
\* the new moved set.
C5_RepeatedNeverMoved ==
  Numbered =>
    /\ \A i, k \in RemPlaces :
         (i # k /\ Body(i) = Body(k)) => blk.lines[i].old_num \notin blk.old_moved_nums
    /\ \A j, k \in AddPlaces :
         (j # k /\ Body(j) = Body(k)) => blk.lines[j].new_num \notin blk.new_moved_nums

\* The removed line at place i and the added line at place j are a seed:
\* each is the only line of its side with the body.
Seed(i, j) ==
  /\ IsRem(i) /\ IsAdd(j)
  /\ Body(i) = Body(j)
  /\ \A k \in RemPlaces \ {i} : Body(k) # Body(i)
  /\ \A k \in AddPlaces \ {j} : Body(k) # Body(j)

\* The lines at places i2 and j2 are the removed line and the added line
\* d numbers after (d = 1) or before (d = -1) those at i and j, and have
\* the same body.
AdjacentPair(i, j, i2, j2, d) ==
  /\ IsRem(i2) /\ IsAdd(j2)
  /\ blk.lines[i2].old_num = blk.lines[i].old_num + d
  /\ blk.lines[j2].new_num = blk.lines[j].new_num + d
  /\ Body(i2) = Body(j2)

\* C5's case: a rendered block with a seed, and next to the seed a removed
\* line and an added line of one body that is on a second removed line.
C5_Witness ==
  /\ Completed
  /\ \E i \in RemPlaces : \E j \in AddPlaces :
       /\ Seed(i, j)
       /\ blk.lines[i].old_num \in blk.old_moved_nums
       /\ \E i2 \in RemPlaces : \E j2 \in AddPlaces :
            /\ AdjacentPair(i, j, i2, j2, 1)
            /\ \E k \in RemPlaces \ {i2} : Body(k) = Body(i2)

\* Every removed line of the block has a positive old number and every
\* added line a positive new number: a hunk header precedes them.
PositiveNumbers ==
  /\ \A i \in RemPlaces : blk.lines[i].old_num > 0
  /\ \A j \in AddPlaces : blk.lines[j].new_num > 0

\* C8: the lines one number after, or one number before, a seed on both
\* sides, when they are a removed line and an added line of equal trimmed
\* text, have their numbers in the moved sets too (stated for the blocks
\* whose lines have positive numbers).
C8_SeedExpands ==
  (Completed /\ PositiveNumbers) =>
    \A i \in RemPlaces : \A j \in AddPlaces :
      Seed(i, j) =>
        \A i2 \in RemPlaces : \A j2 \in AddPlaces : \A d \in {-1, 1} :
          AdjacentPair(i, j, i2, j2, d) =>
            /\ blk.lines[i2].old_num \in blk.old_moved_nums
            /\ blk.lines[j2].new_num \in blk.new_moved_nums

\* chunk_key's third member, for the line at place i.
Flagged(i) ==
  \/ blk.lines[i].old_num \in blk.old_moved_nums
  \/ blk.lines[i].new_num \in blk.new_moved_nums

\* The number of the line at place i is in the moved set of its side.
InMovedSet(i) ==
  \/ IsRem(i) /\ blk.lines[i].old_num \in blk.old_moved_nums
  \/ IsAdd(i) /\ blk.lines[i].new_num \in blk.new_moved_nums

\* The places a..b, in order.
Interval(a, b) == [k \in 1..(b - a + 1) |-> a + k - 1]

\* The places among a..b, in order, of the lines that are of the kind (rem
\* or add), and of those that have a number other than 0 in the field num
\* (old_num or new_num).
RECURSIVE OfKind(_, _, _)
OfKind(kind, a, b) ==
  IF a > b THEN <<>>
  ELSE (IF blk.lines[a].kind = kind THEN <<a>> ELSE <<>>) \o OfKind(kind, a + 1, b)

RECURSIVE WithNumber(_, _, _)
WithNumber(num, a, b) ==
  IF a > b THEN <<>>
  ELSE (IF blk.lines[a][num] # 0 THEN <<a>> ELSE <<>>) \o WithNumber(num, a + 1, b)

IsChange(i) == IsRem(i) \/ IsAdd(i)

\* The maximal runs of consecutive removed and added lines, as pairs <<a, b>>.
Runs ==
  { ab \in Places \X Places :
      /\ ab[1] <= ab[2]
      /\ \A i \in ab[1]..ab[2] : IsChange(i)
      /\ ab[1] > 1 => ~IsChange(ab[1] - 1)
      /\ ab[2] < Len(blk.lines) => ~IsChange(ab[2] + 1) }

\* The maximal parts of the runs whose lines have one value of Flagged.
SubRuns ==
  { ab \in Places \X Places :
      /\ ab[1] <= ab[2]
      /\ ab[1] > 1 => ~(IsChange(ab[1] - 1) /\ Flagged(ab[1] - 1) = Flagged(ab[1]))
      /\ \A i \in ab[1]..ab[2] : IsChange(i) /\ Flagged(i) = Flagged(ab[1])
      /\ ab[2] < Len(blk.lines) =>
           ~(IsChange(ab[2] + 1) /\ Flagged(ab[2] + 1) = Flagged(ab[1])) }

\* The calls of add_token_diffs on lines of the places a..b.
CallsWithin(a, b) ==
  { k \in 1..Len(blk.calls) :
      \E m \in 1..Len(blk.calls[k].chunk) : blk.calls[k].chunk[m] \in a..b }

\* C9 as the spec states it: a run of removed and added lines with a line
\* whose number is not in the moved set is diffed in one call, all its
\* removed lines against all its added lines; a run whose lines are all in
\* the moved sets is not diffed (stated for the blocks whose lines have
\* positive numbers).
C9_Original ==
  (Completed /\ PositiveNumbers) =>
    \A ab \in Runs :
      IF \E i \in ab[1]..ab[2] : ~InMovedSet(i)
      THEN \E k \in 1..Len(blk.calls) :
             /\ CallsWithin(ab[1], ab[2]) = {k}
             /\ blk.calls[k].rem = OfKind("rem", ab[1], ab[2])
             /\ blk.calls[k].add = OfKind("add", ab[1], ab[2])
      ELSE CallsWithin(ab[1], ab[2]) = {}

\* C9, amended: token diffing is decided per maximal part of a run whose
\* lines agree on being flagged, a line being flagged when its old number
\* is in the old moved set or its new number is in the new moved set (a
\* number not assigned counts as 0).  Each part that is not flagged is
\* diffed in one call, its lines with an old number other than 0 against
\* its lines with a new number other than 0; a flagged part is not diffed;
\* the calls are made in the order of the parts.
C9_PerPart ==
  Completed =>
    /\ \A ab \in SubRuns :
         IF Flagged(ab[1])
         THEN CallsWithin(ab[1], ab[2]) = {}
         ELSE \E k \in 1..Len(blk.calls) :
                /\ CallsWithin(ab[1], ab[2]) = {k}
                /\ blk.calls[k].chunk = Interval(ab[1], ab[2])
                /\ blk.calls[k].rem = WithNumber("old_num", ab[1], ab[2])
                /\ blk.calls[k].add = WithNumber("new_num", ab[1], ab[2])
    /\ \A k \in 1..Len(blk.calls) :
         /\ <<blk.calls[k].chunk[1], blk.calls[k].chunk[Len(blk.calls[k].chunk)]>> \in SubRuns
         /\ k > 1 => blk.calls[k - 1].chunk[1] < blk.calls[k].chunk[1]

\* C9's case: a rendered block of lines with positive numbers, with a run
\* that has a flagged part between two parts that are diffed.
C9_Witness ==
  /\ Completed /\ PositiveNumbers
  /\ \E ab \in Runs :
       /\ Cardinality(CallsWithin(ab[1], ab[2])) >= 2
       /\ \E i \in ab[1]..ab[2] : Flagged(i)

TokenMarkers == {C_REM_TOKEN, C_ADD_TOKEN, C_RST_TOKEN}
StrangeMarkers == {C_STRANGE, C_RST_STRANGE}

\* The spans of a rewritten text: it is cut before each token marker; a
\* span is its marker and its body, the pieces up to the next token marker
\* less the markers of strange characters.  What precedes the first token
\* marker is a span without marker.
RECURSIVE Spans(_)
Spans(text) ==
  IF text = <<>> THEN <<>>
  ELSE LET rest == Spans(Tail(text))
           c == Head(text)
       IN
       IF c \in TokenMarkers
       THEN IF rest # <<>> /\ rest[1].marker = ""
            THEN <<[marker |-> c, body |-> rest[1].body]>> \o Tail(rest)
            ELSE <<[marker |-> c, body |-> <<>>]>> \o rest
       ELSE LET piece == IF c \in StrangeMarkers THEN <<>> ELSE <<c>> IN
            IF rest # <<>> /\ rest[1].marker = ""
            THEN <<[marker |-> "", body |-> piece \o rest[1].body]>> \o Tail(rest)
            ELSE <<[marker |-> "", body |-> piece]>> \o rest

\* The concatenation of the bodies of spans.
RECURSIVE Bodies(_)
Bodies(spans) == IF spans = <<>> THEN <<>> ELSE Head(spans).body \o Bodies(Tail(spans))

\* The text t with its named control characters written as their escapes.
Escaped(t) == [i \in 1..Len(t) |-> strange_char_names(t[i])]

\* The original text of the line at place p, and its tokens.
Original(p) == blk.lines[p].match.text
TokensOf(p) == token_pat_findall(Original(p))

\* The position, from 0, in the token stream of the group, of the first
\* token of the m-th line of the group; a newline token precedes every line
\* but the first.
RECURSIVE StreamStart(_, _)
StreamStart(group, m) ==
  IF m = 1 THEN 0 ELSE StreamStart(group, m - 1) + Len(TokensOf(group[m - 1])) + 1

\* The position pos of the stream of side (1 the removed, 2 the added) is in
\* one of the matching blocks.
InBlock(blocks, side, pos) ==
  \E b \in 1..Len(blocks) :
    blocks[b][side] <= pos /\ pos < blocks[b][side] + blocks[b][3]

\* The m-th line of the group was rewritten token by token: one span per
\* token, in order, unchanged when the token is in a matching block and
\* changed when it is in a gap, with Shown(token) as its body.
EmittedOnce(call, side, m, Shown(_)) ==
  LET group == IF side = 1 THEN call.rem ELSE call.add
      changed == IF side = 1 THEN C_REM_TOKEN ELSE C_ADD_TOKEN
      tokens == TokensOf(group[m])
      spans == Spans(blk.lines[group[m]].text)
  IN  /\ Len(spans) = Len(tokens)
      /\ \A t \in 1..Len(tokens) :
           /\ spans[t].marker =
                (IF InBlock(call.blocks, side, StreamStart(group, m) + t - 1)
                 THEN C_RST_TOKEN ELSE changed)
           /\ spans[t].body = Shown(tokens[t])

AsIs(t) == t

\* C6 as the spec states it: each line of a group given to add_token_diffs
\* is rewritten with every one of its tokens once, in order, changed or
\* unchanged as the matching blocks tell, and the spans of a line, the
\* markers left out, concatenate to the line's original text.
C6_Original ==
  Completed =>
    \A k \in 1..Len(blk.calls) :
      /\ \A m \in 1..Len(blk.calls[k].rem) :
           /\ EmittedOnce(blk.calls[k], 1, m, AsIs)
           /\ Bodies(Spans(blk.lines[blk.calls[k].rem[m]].text)) = Original(blk.calls[k].rem[m])
      /\ \A m \in 1..Len(blk.calls[k].add) :
           /\ EmittedOnce(blk.calls[k], 2, m, AsIs)
           /\ Bodies(Spans(blk.lines[blk.calls[k].add[m]].text)) = Original(blk.calls[k].add[m])

\* C6, amended: each line of a group given to add_token_diffs is rewritten
\* with every one of its tokens once, in order, changed or unchanged as the
\* matching blocks tell, and the spans of a line, the markers left out,
\* concatenate to the line's original text with each of the control
\* characters NUL, BEL, BS, TAB, VT, FF and CR written as its backslash
\* escape; every other character is as in the original.
C6_TokensOnce ==
  Completed =>
    \A k \in 1..Len(blk.calls) :
      /\ \A m \in 1..Len(blk.calls[k].rem) :
           /\ EmittedOnce(blk.calls[k], 1, m, Escaped)
           /\ Bodies(Spans(blk.lines[blk.calls[k].rem[m]].text))
                = Escaped(Original(blk.calls[k].rem[m]))
      /\ \A m \in 1..Len(blk.calls[k].add) :
           /\ EmittedOnce(blk.calls[k], 2, m, Escaped)
           /\ Bodies(Spans(blk.lines[blk.calls[k].add[m]].text))
                = Escaped(Original(blk.calls[k].add[m]))

\* C6's case: a call on two removed lines and an added line with a tab,
\* with a matching block before the sentinel and a token of the removed
\* stream in a gap.
C6_Witness ==
  /\ Completed
  /\ \E k \in 1..Len(blk.calls) :
       LET call == blk.calls[k] IN
       /\ Len(call.rem) >= 2 /\ Len(call.add) >= 1
       /\ Len(call.blocks) >= 2
       /\ \E m \in 1..Len(call.add) : \E i \in 1..Len(Original(call.add[m])) :
            Original(call.add[m])[i] = TAB
       /\ \E t \in 1..Len(TokensOf(call.rem[1])) : ~InBlock(call.blocks, 1, t - 1)

====
